---- MODULE Spec2Model ----
(***************************************************************************)
(* Model of the go-fullstack-template server.                              *)
(*                                                                         *)
(*  - SpecHttp: one client sending requests, one after the other, through  *)
(*    the middleware chain built by middleware.Setup (request ID, access   *)
(*    log, recover, timeout, CORS, session) to the route handlers, with    *)
(*    the cookie session and its flash messages.                           *)
(*  - SpecMain / SpecMainFair: the process of cmd/server/main.go: the      *)
(*    listener goroutine, the wait for a termination signal, the drain     *)
(*    bounded by the grace period, the database close and the exit.        *)
(*                                                                         *)
(* The chain runs on two goroutines when the request timeout is enabled:   *)
(* the serving goroutine S (request ID, access log, recover and the        *)
(* timeout stage's select) and the goroutine H started by the timeout      *)
(* stage (CORS, session, handler).  H writes to the timeout stage's        *)
(* buffering writer "tw"; S flushes it to the connection when H is done.   *)
(***************************************************************************)
EXTENDS Integers, Sequences, FiniteSets, Bags, TLC

VARIABLES
    cfgTimeout,   \* cfg.RequestTimeout # 0: the timeout stage is active
    jar,          \* the client's session cookie
    reqNo,        \* number of requests sent so far
    req,          \* the request being handled
    spc,          \* position of the serving goroutine S
    hpc,          \* position of the goroutine H running the inner chain
    ip,           \* next operation of the route handler
    sess,         \* session.Values of the request's session
    herr,         \* error returned by the handler
    serr,         \* error the chain returned to the outer stages
    res,          \* echo.Response, its writers and the bytes on the wire
    accessLog,    \* the request's access-log entry
    panicLog,     \* the request's "panic recovered" log entry
    client,       \* the response the client received last, and the
                  \* request whose response set its cookie
    nextMsg,      \* next fresh flash message
    addedIn,      \* message -> request that added it (0: not added)
    returned,     \* message -> requests in which GetFlashes returned it
    homeGets,     \* message -> GET / requests sent with the cookie as
                  \*            received that ran GetFlashes since the
                  \*            redirect that added it was delivered
    redirected,   \* messages whose POST /greet redirect reached the client
    probe,        \* outcome of the request's database.HealthCheck
    warnLog,      \* the request's "session decode error" log entry
    mainpc,       \* position of main: waiting, draining, dbclose, stopped, exited
    lpc,          \* the listener goroutine: starting, listening, closed, failed
    quit,         \* signals buffered in the quit channel
    inShutdown,   \* e.Shutdown has closed the listener
    dbOpen,       \* the database pool is open
    exited,       \* the process has exited
    exitCode,     \* its exit code
    conn,         \* connection -> none, active, done, refused, cut
    connRes,      \* connection -> the response its request got
    mlog,         \* messages logged by main
    drainErr,     \* error returned by e.Shutdown
    closeErr,     \* database.Close returned an error
    inFlight,     \* connections in flight when the signal was received
    lateAccept,   \* connections accepted after the signal was received
    doneAt,       \* connection -> position of main when its request completed
    corsEnv,      \* the value of CORS_ALLOWED_ORIGINS in the environment
    corsReq,      \* the request the CORS stage handled last
    corsRes,      \* what the CORS stage did with it
    disk,         \* the files of the migrations directory
    nextName,     \* the timestamp the next created migration gets
    rec,          \* migration -> its group in the migrations table (0: none)
    locked,       \* the row of the locks table exists
    forced,       \* an unlock command removed the row of a running command
    runs,         \* invocations of the migration CLI so far
    overlapped,   \* an invocation has started while another one was running
    proc,         \* the running invocations of the migration CLI (a bag)
    last,         \* how the invocation that ended in the last step ended
    call,         \* a function called on its own, and its arguments
    ret,          \* what the call returned
    cfgEnv,          \* cfg.Environment of the chain Setup built
    tmo,          \* that chain's timeout stage is active
    isPreflight,    \* the request walking that chain is a CORS isPreflight
    sIn,          \* stages the serving goroutine has entered and not left
    hIn,          \* stages the timeout stage's goroutine has entered, not left
    walk,         \* where the inner chain is: in, handler, out
    ended,      \* how the handler ended
    fired,        \* the timeout stage stopped waiting
    saved         \* the session stage has saved the session

httpVars == <<cfgTimeout, jar, reqNo, req, spc, hpc, ip, sess, herr, serr,
              res, accessLog, panicLog, client, nextMsg, addedIn,
              returned, homeGets, redirected, probe, warnLog>>

mainVars == <<mainpc, lpc, quit, inShutdown, dbOpen, exited, exitCode, conn,
              connRes, mlog, drainErr, closeErr, inFlight, lateAccept, doneAt>>

corsVars == <<corsEnv, corsReq, corsRes>>

\* the variables outside the middleware chain and the server's main
migVars == <<disk, nextName, rec, locked, forced, runs, overlapped, proc,
             last>>

\* a function of the handlers package called outside a request
callVars == <<call, ret>>

\* one request walking the chain of stages Setup registered
stageVars == <<cfgEnv, tmo, isPreflight, sIn, hIn, walk, ended, fired, saved>>

extVars == <<corsVars, migVars, callVars, stageVars>>

vars == <<httpVars, mainVars, extVars>>

-----------------------------------------------------------------------------
(* Bounds *)

MaxReqs == 3
MaxMsgs == 1
MaxConns == 2

Msgs == 1..MaxMsgs

Conns == 1..MaxConns

-----------------------------------------------------------------------------
(* Sessions and flash messages *)

FlashSuccess == "success"
FlashError == "error"
FlashWarning == "warning"
FlashInfo == "info"

\* the buckets GetFlashes reads, in the order it reads them
FlashOrder == <<FlashSuccess, FlashError, FlashWarning, FlashInfo>>

Buckets == {FlashOrder[i] : i \in 1..Len(FlashOrder)}

\* the flashType strings a caller passes: the four constants, and another
FlashTypes == Buckets \cup {"danger"}

\* session.Values: flash key -> the messages stored under it
EmptySession == [t \in FlashTypes |-> <<>>]

NoCookie == [present |-> FALSE, val |-> EmptySession]

Cookie(s) == [present |-> TRUE, val |-> s]

\* session.AddFlash(message, flashType): append to the bucket of flashType
AddFlash(s, flashType, message) ==
    [s EXCEPT ![flashType] = Append(@, message)]

RECURSIVE FlashesFrom(_, _)
FlashesFrom(s, i) ==
    IF i > Len(FlashOrder) THEN <<>>
    ELSE [k \in 1..Len(s[FlashOrder[i]]) |->
              [Type |-> FlashOrder[i], Message |-> s[FlashOrder[i]][k]]]
         \o FlashesFrom(s, i + 1)

\* the messages GetFlashes returns
GetFlashes(s) == FlashesFrom(s, 1)

\* session.Flashes(flashType) removes the bucket it returns
GetFlashesKeeps(s) == s

GetFlashesSessionButInfo(s) ==
    [t \in DOMAIN s |-> IF t \in Buckets \ {FlashInfo} THEN <<>> ELSE s[t]]

GetFlashesSession(s) == [t \in DOMAIN s |-> IF t \in Buckets THEN <<>> ELSE s[t]]

-----------------------------------------------------------------------------
(* Requests *)

NoRid == <<>>

Routes == {"home", "greet", "health", "missing", "preflight", "notice"}

NoReq == [route |-> "none", hx |-> FALSE, accept |-> "none", ctype |-> "none",
          rid |-> NoRid, cookie |-> NoCookie, tampered |-> FALSE,
          jarFrom |-> 0]

\* the operations of each route handler, in order
Script(r) ==
    CASE r.route = "home"   -> <<"GetFlashes", "Render">>
      [] r.route = "greet"  -> IF r.hx THEN <<"HTML">>
                               ELSE <<"AddFlash", "Redirect">>
      [] r.route = "health" -> <<"Health">>
      [] r.route = "notice" -> <<"AddFlash", "GetFlashes", "Render">>
      [] OTHER              -> <<"NotFound">>

AddsFlash(r) == \E i \in 1..Len(Script(r)) : Script(r)[i] = "AddFlash"

-----------------------------------------------------------------------------
(* echo.Response, http.TimeoutHandler's writer and the connection *)

NoWire == [sent |-> FALSE, status |-> 0, rid |-> NoRid, cookie |-> NoCookie,
           body |-> "none"]

NewResponse ==
    [writer    |-> "orig",
     committed |-> FALSE,
     status    |-> 200,
     hdr       |-> [rid |-> NoRid, cookie |-> NoCookie],
     twh       |-> [rid |-> NoRid, cookie |-> NoCookie],
     twWrote   |-> FALSE,
     twCode    |-> 0,
     twBody    |-> "none",
     twErr     |-> FALSE,
     expired   |-> FALSE,
     ignore    |-> FALSE,
     wire      |-> NoWire]

\* WriteHeader on the connection: the header map is sent as it is now
RealWriteHeader(r, code) ==
    IF r.wire.sent THEN r
    ELSE [r EXCEPT !.wire = [sent |-> TRUE, status |-> code,
                             rid |-> r.hdr.rid, cookie |-> r.hdr.cookie,
                             body |-> "empty"]]

RealWrite(r, body) ==
    [RealWriteHeader(r, 200) EXCEPT !.wire.body = body]

\* c.Response().Writer.WriteHeader
WriterWriteHeader(r, code) ==
    IF r.writer = "tw"
    THEN IF r.twErr \/ r.twWrote THEN r
         ELSE [r EXCEPT !.twWrote = TRUE, !.twCode = code]
    ELSE RealWriteHeader(r, code)

WriterWriteThrough(r, body) == RealWrite(r, body)

\* c.Response().Writer.Write
WriterWrite(r, body) ==
    IF r.writer = "tw"
    THEN IF r.twErr THEN r
         ELSE [WriterWriteHeader(r, 200) EXCEPT !.twBody = body]
    ELSE RealWrite(r, body)

\* echo.Response.WriteHeader
EchoWriteHeader(r, code) ==
    IF r.committed THEN r
    ELSE [WriterWriteHeader([r EXCEPT !.status = code], code)
            EXCEPT !.committed = TRUE]

\* c.HTML / c.JSON / c.NoContent
EchoRespond(r, code, body) == WriterWrite(EchoWriteHeader(r, code), body)

\* c.Response().Header().Get(echo.HeaderXRequestID)
HeaderRid(r) == IF r.writer = "tw" THEN r.twh.rid ELSE r.hdr.rid

\* http.SetCookie(c.Response(), cookie)
SetCookie(r, c) ==
    IF r.writer = "tw" THEN [r EXCEPT !.twh.cookie = c]
    ELSE [r EXCEPT !.hdr.cookie = c]

\* the errors a chain returns: echo.HTTPError values and any other error
Errors == {"http404", "http405", "http503", "generic"}

\* he.Code of an echo.HTTPError, 500 for any other error
ErrCode(e) ==
    CASE e = "http404" -> 404
      [] e = "http405" -> 405
      [] e = "http503" -> 503
      [] OTHER         -> 500

JSONType == "application/json"

ErrBodyPartialFirst(rq) ==
    IF rq.hx THEN "errorFragment"
    ELSE IF rq.accept = JSONType \/ rq.ctype = JSONType THEN "errorJSON"
    ELSE "errorPage"

\* the body the error handler picks: JSON when Accept or Content-Type is
\* application/json, the fragment when HX-Request is true, else the page
ErrBody(rq) ==
    IF rq.accept = JSONType \/ rq.ctype = JSONType THEN "errorJSON"
    ELSE IF rq.hx THEN "errorFragment"
    ELSE "errorPage"

\* the terminal error handler: nothing for a committed response, the error
\* page or fragment otherwise
customErrorHandler(r, e, rq) ==
    IF r.committed THEN r
    ELSE EchoRespond(r, ErrCode(e), ErrBody(rq))

-----------------------------------------------------------------------------
(* The state before the first request *)

NoAccessLog == [logged |-> FALSE, rid |-> NoRid, status |-> 0,
                level |-> "none"]

InitHttp ==
    /\ cfgTimeout \in BOOLEAN
    /\ jar = NoCookie
    /\ reqNo = 0
    /\ req = NoReq
    /\ spc = "idle"
    /\ hpc = "idle"
    /\ ip = 1
    /\ sess = EmptySession
    /\ herr = "none"
    /\ serr = "none"
    /\ res = NewResponse
    /\ accessLog = NoAccessLog
    /\ panicLog = [logged |-> FALSE, rid |-> NoRid]
    /\ client = [resp |-> NoWire, from |-> 0, jarFrom |-> 0]
    /\ nextMsg = 1
    /\ addedIn = [m \in Msgs |-> 0]
    /\ returned = [m \in Msgs |-> <<>>]
    /\ homeGets = [m \in Msgs |-> 0]
    /\ redirected = {}
    /\ probe = "none"
    /\ warnLog = FALSE

-----------------------------------------------------------------------------
(* The serving goroutine S on the way in: RequestID, access log, recover,  *)
(* timeout.  RequestID copies or generates the id into the response header *)
(* of the connection; the timeout stage starts H, or calls the inner chain *)
(* directly when the configured timeout is 0.                              *)

HxOf(route) == IF route = "greet" THEN BOOLEAN ELSE {FALSE}

\* the client sends its cookie as it got it, or with an altered value
Tampering == IF jar.present THEN BOOLEAN ELSE {FALSE}

Arrive(route, hx, hasRid, tampered) ==
    /\ spc = "idle"
    /\ hpc \in {"idle", "finished", "panicked"}
    /\ reqNo < MaxReqs
    /\ LET n  == reqNo + 1
           rq == [route |-> route, hx |-> hx,
                  accept |-> "none", ctype |-> "none",
                  rid |-> IF hasRid THEN <<"client", n>> ELSE NoRid,
                  cookie |-> jar, tampered |-> tampered,
                  jarFrom |-> client.jarFrom]
       IN /\ AddsFlash(rq) => nextMsg <= MaxMsgs
          /\ reqNo' = n
          /\ req' = rq
          /\ res' = [NewResponse EXCEPT !.hdr.rid =
                        IF hasRid THEN rq.rid ELSE <<"gen", n>>]
    /\ spc' = "select"
    /\ hpc' = IF cfgTimeout THEN "spawned" ELSE "cors"
    /\ ip' = 1
    /\ sess' = EmptySession
    /\ herr' = "none"
    /\ serr' = "none"
    /\ accessLog' = NoAccessLog
    /\ panicLog' = [logged |-> FALSE, rid |-> NoRid]
    /\ probe' = "none"
    /\ warnLog' = FALSE
    /\ UNCHANGED <<cfgTimeout, jar, client, nextMsg, addedIn,
                   returned, homeGets, redirected, mainVars, extVars>>

-----------------------------------------------------------------------------
(* The goroutine H: the timeout stage's wrapper, CORS, session, handler *)

hFrame == <<cfgTimeout, jar, reqNo, req, spc, serr, accessLog, panicLog,
            client, mainVars, extVars>>

flashFrame == <<nextMsg, addedIn, returned, homeGets, redirected>>

\* what the steps of H other than the handler's leave alone
hRest == <<hFrame, probe, warnLog>>

\* where the inner chain goes when the session or CORS stage returns
AfterChain == IF cfgTimeout THEN "exit" ELSE "finished"

\* the wrapper swaps the response's writer for the timeout stage's writer
WrapperEnter ==
    /\ hpc = "spawned"
    /\ res' = [res EXCEPT !.writer = "tw"]
    /\ hpc' = "cors"
    /\ UNCHANGED <<hRest, flashFrame, ip, sess, herr>>

\* CORS answers a preflight itself and calls the next stage otherwise
CORSStage ==
    /\ hpc = "cors"
    /\ IF req.route = "preflight"
       THEN /\ res' = EchoRespond(res, 204, "empty")
            /\ hpc' = AfterChain
       ELSE /\ res' = res
            /\ hpc' = "session"
    /\ UNCHANGED <<hRest, flashFrame, ip, sess, herr>>

sessionStoreGetUnverified(rq) ==
    [session |-> IF rq.cookie.present THEN rq.cookie.val ELSE EmptySession,
     err     |-> FALSE]

\* sessionStore.Get: the session decoded from the request's cookie; a new
\* empty session when there is no cookie, and a new empty session with an
\* error when the cookie's value does not verify
sessionStoreGet(rq) ==
    IF rq.cookie.present /\ ~rq.tampered
    THEN [session |-> rq.cookie.val, err |-> FALSE]
    ELSE [session |-> EmptySession, err |-> rq.cookie.present]

\* sessionStore.New with its error dropped: a new session, holding the
\* cookie's values only when they verify
sessionStoreNew(rq) == sessionStoreGet(rq).session

\* the session stage on the way in: Get, and on an error a warning in the
\* log and New; the session goes into the context and next(c) is called
SessionGet ==
    /\ hpc = "session"
    /\ LET got == sessionStoreGet(req)
       IN /\ warnLog' = got.err
          /\ sess' = IF got.err THEN sessionStoreNew(req) ELSE got.session
    /\ hpc' = "handler"
    /\ UNCHANGED <<hFrame, probe, flashFrame, ip, herr, res>>

AtOp(op) ==
    /\ hpc = "handler"
    /\ herr = "none"
    /\ ip <= Len(Script(req))
    /\ Script(req)[ip] = op

NoticeTypes == {FlashError, FlashInfo}

HAddFlash ==
    /\ AtOp("AddFlash")
    /\ nextMsg <= MaxMsgs
    /\ \E t \in IF req.route = "greet" THEN {FlashSuccess} ELSE NoticeTypes :
          sess' = AddFlash(sess, t, nextMsg)
    /\ addedIn' = [addedIn EXCEPT ![nextMsg] = reqNo]
    /\ nextMsg' = nextMsg + 1
    /\ ip' = ip + 1
    /\ UNCHANGED <<hRest, returned, homeGets, redirected, hpc, herr, res>>

HGetFlashes ==
    /\ AtOp("GetFlashes")
    /\ LET got == {GetFlashes(sess)[i].Message : i \in 1..Len(GetFlashes(sess))}
       IN /\ returned' = [m \in Msgs |-> IF m \in got
                                          THEN Append(returned[m], reqNo)
                                          ELSE returned[m]]
          /\ homeGets' = [m \in Msgs |-> IF /\ req.route = "home"
                                             /\ ~req.tampered
                                             /\ m \in redirected
                                          THEN homeGets[m] + 1
                                          ELSE homeGets[m]]
    /\ sess' = GetFlashesSession(sess)
    /\ ip' = ip + 1
    /\ UNCHANGED <<hRest, nextMsg, addedIn, redirected, hpc, herr, res>>

\* pages.X(...).Render(ctx, c.Response().Writer): writes to the writer
\* directly, or fails
HRender ==
    /\ AtOp("Render")
    /\ \E ok \in BOOLEAN :
          IF ok /\ ~(res.writer = "tw" /\ res.twErr)
          THEN /\ res' = WriterWrite(res, "page")
               /\ herr' = "none"
          ELSE /\ res' = res
               /\ herr' = "generic"
    /\ ip' = ip + 1
    /\ UNCHANGED <<hRest, flashFrame, hpc, sess>>

HHTML ==
    /\ AtOp("HTML")
    /\ res' = EchoRespond(res, 200, "fragment")
    /\ ip' = ip + 1
    /\ UNCHANGED <<hRest, flashFrame, hpc, sess, herr>>

HRedirect ==
    /\ AtOp("Redirect")
    /\ res' = EchoWriteHeader(res, 303)
    /\ ip' = ip + 1
    /\ UNCHANGED <<hRest, flashFrame, hpc, sess, herr>>

HealthyBody == "status=healthy,database=connected,timestamp"

UnhealthyBody == "status=unhealthy,database=disconnected,error,timestamp"

HealthCodeAlwaysOk(up) == 200

HealthCode(up) == IF up THEN 200 ELSE 503

HealthBody(up) == IF up THEN HealthyBody ELSE UnhealthyBody

\* database.HealthCheck(ctx, db): the ping fails when the database does not
\* answer, the pool is closed or the request's context is cancelled
HealthCheck == IF dbOpen /\ ~res.expired THEN BOOLEAN ELSE {FALSE}

HHealth ==
    /\ AtOp("Health")
    /\ \E up \in HealthCheck :
          /\ probe' = IF up THEN "ok" ELSE "failed"
          /\ res' = EchoRespond(res, HealthCode(up), HealthBody(up))
    /\ ip' = ip + 1
    /\ UNCHANGED <<hFrame, warnLog, flashFrame, hpc, sess, herr>>

\* no route matches: echo's not-found handler returns an HTTP error
HNotFound ==
    /\ AtOp("NotFound")
    /\ herr' = "http404"
    /\ ip' = ip + 1
    /\ UNCHANGED <<hRest, flashFrame, hpc, sess, res>>

HandlerReturn ==
    /\ hpc = "handler"
    /\ herr # "none" \/ ip > Len(Script(req))
    /\ hpc' = "save"
    /\ UNCHANGED <<hRest, flashFrame, ip, sess, herr, res>>

\* a panic in the handler or in the session stage unwinds H; the wrapper's
\* deferred function puts the original writer back and panics again
HandlerPanic ==
    /\ hpc \in {"handler", "save"}
    /\ hpc' = "panicked"
    /\ res' = [res EXCEPT !.writer = "orig"]
    /\ UNCHANGED <<hRest, flashFrame, ip, sess, herr>>

\* session.Save after next(c): the cookie goes into the header map of the
\* response's current writer
SessionSave ==
    /\ hpc = "save"
    /\ res' = SetCookie(res, Cookie(sess))
    /\ hpc' = AfterChain
    /\ UNCHANGED <<hRest, flashFrame, ip, sess, herr>>

\* the wrapper after the inner chain returned
WrapperExit ==
    /\ hpc = "exit"
    /\ res' = IF res.expired THEN res
              ELSE IF herr # "none"
                   THEN [res EXCEPT !.ignore = TRUE, !.writer = "orig"]
                   ELSE [res EXCEPT !.writer = "orig"]
    /\ hpc' = "finished"
    /\ UNCHANGED <<hRest, flashFrame, ip, sess, herr>>

-----------------------------------------------------------------------------
(* The serving goroutine S in the timeout stage and on the way out *)

sFrame == <<cfgTimeout, reqNo, req, hpc, ip, sess, herr, probe, warnLog,
            mainVars, extVars>>

\* the request's context reaches its deadline
Deadline ==
    /\ cfgTimeout
    /\ spc = "select"
    /\ ~res.expired
    /\ res' = [res EXCEPT !.expired = TRUE]
    /\ UNCHANGED <<sFrame, flashFrame, jar, spc, serr, accessLog, panicLog,
                   client>>

TimeoutFiresWhenDone ==
    /\ spc = "select"
    /\ res.expired
    /\ hpc \in {"finished", "panicked"}
    /\ res' = [RealWrite(RealWriteHeader(res, 503), "timeout")
                 EXCEPT !.twErr = TRUE]
    /\ serr' = "none"
    /\ spc' = "logger"
    /\ UNCHANGED <<sFrame, flashFrame, jar, accessLog, panicLog, client>>

\* http.TimeoutHandler, case <-ctx.Done()
TimeoutFires ==
    /\ spc = "select"
    /\ res.expired
    /\ res' = [RealWrite(RealWriteHeader(res, 503), "timeout")
                 EXCEPT !.twErr = TRUE]
    /\ serr' = "none"
    /\ spc' = "logger"
    /\ UNCHANGED <<sFrame, flashFrame, jar, accessLog, panicLog, client>>

\* http.TimeoutHandler, case <-done: the buffered header map, status and
\* body go to the connection
Flush(r) ==
    LET r1 == [r EXCEPT !.hdr.cookie =
                  IF r.twh.cookie.present THEN r.twh.cookie ELSE @]
        r2 == RealWriteHeader(r1, IF r1.twWrote THEN r1.twCode ELSE 200)
    IN IF r1.ignore THEN r1
       ELSE IF r1.twBody # "none" THEN [r2 EXCEPT !.wire.body = r1.twBody]
            ELSE r2

ChainReturns ==
    /\ spc = "select"
    /\ hpc = "finished"
    /\ res' = IF cfgTimeout THEN Flush(res) ELSE res
    /\ serr' = herr
    /\ spc' = "logger"
    /\ UNCHANGED <<sFrame, flashFrame, jar, accessLog, panicLog, client>>

\* recoverMiddleware: the panic reaches S, is logged and handed to the
\* error handler
ChainPanics ==
    /\ spc = "select"
    /\ hpc = "panicked"
    /\ panicLog' = [logged |-> TRUE, rid |-> HeaderRid(res)]
    /\ res' = customErrorHandler(res, "generic", req)
    /\ serr' = "none"
    /\ spc' = "logger"
    /\ UNCHANGED <<sFrame, flashFrame, jar, accessLog, client>>

\* the level LogValuesFunc logs v.Status at
LogLevel(status) ==
    CASE status >= 500 -> "error"
      [] status >= 400 -> "warn"
      [] OTHER         -> "info"

\* v.Status of the request logger: the status of echo's response, or the
\* code of the echo.HTTPError the chain returned
LoggedStatus(r, e) == IF e \in Errors \ {"generic"} THEN ErrCode(e) ELSE r.status

\* requestLoggerMiddleware after next(c)
LogAccess ==
    /\ spc = "logger"
    /\ accessLog' =
          [logged |-> TRUE,
           rid    |-> IF req.rid # NoRid THEN req.rid ELSE HeaderRid(res),
           status |-> LoggedStatus(res, serr),
           level  |-> LogLevel(LoggedStatus(res, serr))]
    /\ spc' = "finish"
    /\ UNCHANGED <<sFrame, flashFrame, jar, serr, res, panicLog, client>>

\* echo's ServeHTTP after the chain: the error handler for a returned
\* error, then the server completes the response and the client reads it
Finish ==
    /\ spc = "finish"
    /\ LET r1 == IF serr # "none" THEN customErrorHandler(res, serr, req)
                 ELSE res
           r2 == RealWriteHeader(r1, 200)
       IN /\ res' = r2
          /\ client' = [resp |-> r2.wire, from |-> reqNo,
                         jarFrom |-> IF r2.wire.cookie.present THEN reqNo
                                     ELSE client.jarFrom]
          /\ jar' = IF r2.wire.cookie.present THEN r2.wire.cookie ELSE jar
          /\ redirected' =
                IF req.route = "greet" /\ ~req.hx /\ r2.wire.status = 303
                THEN redirected \cup {m \in Msgs : addedIn[m] = reqNo}
                ELSE redirected
    /\ spc' = "idle"
    /\ UNCHANGED <<sFrame, serr, accessLog, panicLog, nextMsg, addedIn,
                   returned, homeGets>>

NextHttp ==
    \/ \E route \in Routes : \E hx \in HxOf(route) : \E hasRid \in BOOLEAN :
          \E tampered \in Tampering : Arrive(route, hx, hasRid, tampered)
    \/ WrapperEnter
    \/ CORSStage
    \/ SessionGet
    \/ HAddFlash
    \/ HGetFlashes
    \/ HRender
    \/ HHTML
    \/ HRedirect
    \/ HHealth
    \/ HNotFound
    \/ HandlerReturn
    \/ HandlerPanic
    \/ SessionSave
    \/ WrapperExit
    \/ Deadline
    \/ TimeoutFires
    \/ ChainReturns
    \/ ChainPanics
    \/ LogAccess
    \/ Finish

-----------------------------------------------------------------------------
(* The allowed origins: config.Load and the CORS stage's decision *)

MaxEnvLen == 3

OriginA == "https://a.com"
OriginB == "https://b.com"
OriginSub == "https://x.a.com"

\* an allow-list entry with a wildcard label
WildA == "https://*.a.com"

Origins == {OriginA, OriginB, OriginSub}

\* the pieces a value of CORS_ALLOWED_ORIGINS is made of
EnvTokens == Origins \cup {WildA, "*", ",", " "}

Unset == <<"unset">>

EnvValues == {Unset} \cup UNION {[1..n -> EnvTokens] : n \in 0..MaxEnvLen}

\* getEnv(key, fallback)
getEnv(value, fallback) == IF value = Unset THEN fallback ELSE value

\* strings.Split(s, ","): the pieces between the commas, empty ones included
RECURSIVE Split(_, _)
Split(s, cur) ==
    IF s = <<>> THEN <<cur>>
    ELSE IF Head(s) = "," THEN <<cur>> \o Split(Tail(s), <<>>)
         ELSE Split(Tail(s), Append(cur, Head(s)))

RECURSIVE TrimLeft(_)
TrimLeft(s) ==
    IF s # <<>> /\ Head(s) = " " THEN TrimLeft(Tail(s)) ELSE s

RECURSIVE TrimRight(_)
TrimRight(s) ==
    IF s # <<>> /\ s[Len(s)] = " " THEN TrimRight(SubSeq(s, 1, Len(s) - 1))
    ELSE s

\* strings.TrimSpace
TrimSpace(s) == TrimRight(TrimLeft(s))

\* cfg.CORSAllowedOrigins
corsOrigins(env) ==
    LET parts == Split(getEnv(env, <<"*">>), <<>>)
    IN [i \in 1..Len(parts) |-> TrimSpace(parts[i])]

\* the allow-list entry o read as a pattern ("*" stands for any text)
\* matches the text s
RECURSIVE PatternMatch(_, _)
PatternMatch(o, s) ==
    IF o = <<>> THEN s = <<>>
    ELSE IF Head(o) = "*"
         THEN PatternMatch(Tail(o), s)
              \/ (s # <<>> /\ PatternMatch(o, Tail(s)))
         ELSE /\ s # <<>>
              /\ \/ Head(s) = Head(o)
                 \/ Head(o) = WildA /\ Head(s) = OriginSub
              /\ PatternMatch(Tail(o), Tail(s))

\* the entry has no wildcard in it
Specific(o) == \A k \in 1..Len(o) : o[k] \notin {"*", WildA}

AllowOriginReflects(list, origin) == {origin}

\* the values the CORS stage may give Access-Control-Allow-Origin for a
\* request with this Origin header ("none": the header is not set)
AllowOrigin(list, origin) ==
    LET exact == {i \in 1..Len(list) :
                     list[i] \in {<<"*">>, <<origin>>}
                     \/ (list[i] = <<WildA>> /\ origin = OriginSub)}
        first == CHOOSE i \in exact : \A j \in exact : i <= j
    IN IF origin = "none" THEN {"none"}
       ELSE IF exact # {}
            THEN IF list[first] = <<"*">> THEN {"*", origin} ELSE {origin}
            ELSE IF \E i \in 1..Len(list) : PatternMatch(list[i], <<origin>>)
                 THEN {origin}
                 ELSE {"none"}

NoCorsReq == [origin |-> "none", preflight |-> FALSE]

NoCorsRes == [answered |-> FALSE, acao |-> "none", status |-> 0,
              passedOn |-> FALSE]

CorsIdle ==
    /\ corsEnv = Unset
    /\ corsReq = NoCorsReq
    /\ corsRes = NoCorsRes

InitCors ==
    /\ corsEnv \in EnvValues
    /\ corsReq = NoCorsReq
    /\ corsRes = NoCorsRes

\* a request goes through the CORS stage; the header map it filled reaches
\* the client unless a later stage replaces the response (timeout, panic)
CorsServe(origin, preflight, delivered) ==
    /\ corsReq' = [origin |-> origin, preflight |-> preflight]
    /\ \E allow \in AllowOrigin(corsOrigins(corsEnv), origin) :
          corsRes' = [answered |-> TRUE,
                      acao     |-> IF delivered THEN allow ELSE "none",
                      status   |-> IF preflight /\ delivered THEN 204 ELSE 0,
                      passedOn |-> ~preflight]
    /\ UNCHANGED <<corsEnv, httpVars, mainVars, migVars, callVars, stageVars>>

NextCors ==
    \E origin \in Origins \cup {"none"} : \E preflight, delivered \in BOOLEAN :
        CorsServe(origin, preflight, delivered)

-----------------------------------------------------------------------------
(* cmd/migrate/main.go: the migration CLI.  Up to MaxProcs invocations run *)
(* at a time; they share the migrations directory and the database (the    *)
(* migration records and the lock row).                                    *)

MaxMigs == 2
MaxProcs == 2
MaxRuns == 3

Names == 1..MaxMigs

Commands == {"none", "up", "down", "status", "create", "delete", "redo",
             "lock", "unlock", "bogus"}

NoArg == [ts |-> 0, comment |-> ""]

\* a file <timestamp>_<comment>.<kind>.sql of the migrations directory
File(n, kind) == [ts |-> n, comment |-> "x", kind |-> kind]

\* the name of the migration discovered from the files of timestamp n
MigrationName(n) == [ts |-> n, comment |-> ""]

FilePathOfFile(name, kind) == [ts |-> name.ts, comment |-> "x", kind |-> kind]

\* filepath.Join(migrationsDir, name+".up.sql")
FilePath(name, kind) == [ts |-> name.ts, comment |-> name.comment, kind |-> kind]

\* the second argument of an invocation
Args(cmd) ==
    IF cmd = "create" THEN {NoArg, [ts |-> 0, comment |-> "x"]}
    ELSE IF cmd = "delete"
         THEN {NoArg} \cup {[ts |-> n, comment |-> c] : n \in Names, c \in {"", "x"}}
         ELSE {NoArg}

\* Migrations.Discover: the migrations of the files in the directory
Discover(files) == {n \in Names : \E f \in files : f.ts = n}

\* the state of an invocation
NewProc ==
    [cmd |-> "none", arg |-> NoArg, pc |-> "idle", code |-> -1,
     errmsg |-> "none", outcome |-> "none",
     ms |-> {}, half |-> "none", todo |-> <<>>, gid |-> 0, done |-> 0,
     err |-> FALSE, rb |-> "none", ap |-> "none", was |-> {},
     db |-> "none"]

\* no invocation ended in the last step
NoExit == [cmd |-> "none", code |-> -1, errmsg |-> "none",
           outcome |-> "none", rb |-> "none", ap |-> "none",
           db |-> "none", closed |-> FALSE]

\* the directory and the migrations table before the invocations: a new
\* project (no migration), a first migration created, or created and applied
MigStart(created, applied) ==
    /\ disk = IF created THEN {File(1, "up"), File(1, "down")} ELSE {}
    /\ nextName = IF created THEN 2 ELSE 1
    /\ rec = [n \in Names |-> IF applied /\ n = 1 THEN 1 ELSE 0]
    /\ locked = FALSE
    /\ forced = FALSE
    /\ runs = 0
    /\ overlapped = FALSE
    /\ proc = EmptyBag
    /\ last = NoExit

InitMigs ==
    \E created, applied \in BOOLEAN : (applied => created) /\ MigStart(created, applied)

InitMig ==
    /\ disk = {}
    /\ nextName = 1
    /\ rec = [n \in Names |-> 0]
    /\ locked = FALSE
    /\ forced = FALSE
    /\ runs = 0
    /\ overlapped = FALSE
    /\ proc = EmptyBag
    /\ last = NoExit

\* the end of an invocation: exit code, message on standard error, and
\* whether the command did what it was asked
Exit(q, code, errmsg, outcome) ==
    [q EXCEPT !.pc = "idle", !.code = code, !.errmsg = errmsg,
              !.outcome = outcome]

\* fatalf: the message goes to standard error, the process exits with 1
fatalf(q, errmsg) == Exit(q, 1, errmsg, "fail")

\* defer database.Close(db): the deferred calls of main run when main
\* returns (code 0) or panics (code 2), not when os.Exit(1) ends the process
DeferredRun(q) == q.code # 1

\* the running invocations
Running == BagToSet(proc)

\* the invocations without p, which goes on as q or has ended as q
Settle(p, q) ==
    IF q.pc = "idle"
    THEN /\ proc' = proc (-) SetToBag({p})
         /\ last' = [cmd |-> q.cmd, code |-> q.code, errmsg |-> q.errmsg,
                     outcome |-> q.outcome, rb |-> q.rb, ap |-> q.ap,
                     db |-> q.db,
                     closed |-> (q.db = "open" /\ DeferredRun(q))]
    ELSE /\ proc' = (proc (-) SetToBag({p})) (+) SetToBag({q})
         /\ last' = NoExit

RECURSIVE SeqAsc(_)
SeqAsc(S) ==
    IF S = {} THEN <<>>
    ELSE LET n == CHOOSE x \in S : \A y \in S : x <= y
         IN <<n>> \o SeqAsc(S \ {n})

RECURSIVE SeqDesc(_)
SeqDesc(S) ==
    IF S = {} THEN <<>>
    ELSE LET n == CHOOSE x \in S : \A y \in S : x >= y
         IN <<n>> \o SeqDesc(S \ {n})

\* MigrationSlice.LastGroupID over the migrations the binary knows
LastGroupID(ms) ==
    IF {rec[n] : n \in ms} = {} THEN 0
    ELSE CHOOSE g \in {rec[n] : n \in ms} : \A n \in ms : rec[n] <= g

UnappliedNewestFirst(ms) == SeqDesc({n \in ms : rec[n] = 0})

\* MigrationSlice.Unapplied, sorted by name
Unapplied(ms) == SeqAsc({n \in ms : rec[n] = 0})

\* MigrationSlice.LastGroup, in the order Rollback walks it
LastGroupReversed(ms) ==
    SeqDesc({n \in ms : rec[n] # 0 /\ rec[n] = LastGroupID(ms)})

migFrame == <<httpVars, mainVars, corsVars, callVars, stageVars>>

\* no CORS request and no invocation of the migration CLI
\* no function is called on its own
CallIdle ==
    /\ call = [fn |-> "none"]
    /\ ret = [done |-> FALSE]

\* no request is walking the chain
StageIdle ==
    /\ cfgEnv = "development"
    /\ tmo = FALSE
    /\ isPreflight = FALSE
    /\ sIn = <<>>
    /\ hIn = <<>>
    /\ walk = "idle"
    /\ ended = "none"
    /\ fired = FALSE
    /\ saved = FALSE

InitExt == CorsIdle /\ InitMig /\ CallIdle /\ StageIdle

\* the first pc of each command
Dispatch(cmd) ==
    CASE cmd \in {"up", "down", "redo"} -> "lock"
      [] cmd = "status" -> "status"
      [] cmd = "create" -> "create"
      [] cmd = "delete" -> "delete"
      [] cmd = "lock"   -> "lockcmd"
      [] cmd = "unlock" -> "unlockcmd"

\* a new invocation, migrate <cmd> [arg], up to the switch of main: the
\* argument count (usage goes to standard output), the database connection
\* and the migrator, the migrations of the directory, the command
MMain(cmd, arg) ==
    /\ BagCardinality(proc) < MaxProcs
    /\ runs < MaxRuns
    /\ runs' = runs + 1
    /\ overlapped' = (overlapped \/ BagCardinality(proc) > 0)
    /\ LET q == [NewProc EXCEPT !.cmd = cmd, !.arg = arg]
       IN IF cmd = "none"
          THEN Settle(q, Exit(q, 1, "none", "fail"))
          ELSE \E dbOk \in BOOLEAN :
                 Settle(q,
                    IF ~dbOk THEN fatalf(q, "Failed to connect to database")
                    ELSE IF cmd = "bogus"
                         THEN Exit([q EXCEPT !.db = "open"], 1, "none", "fail")
                         ELSE [q EXCEPT !.pc = Dispatch(cmd),
                                        !.db = "open",
                                        !.ms = Discover(disk),
                                        !.half = IF cmd = "up" THEN "apply"
                                                 ELSE IF cmd \in {"down", "redo"}
                                                      THEN "rollback"
                                                      ELSE "none"])
    /\ UNCHANGED <<migFrame, disk, nextName, rec, locked, forced>>

FailMessageOneForBoth(q) ==
    CASE q.cmd = "up"   -> "Migration failed"
      [] q.cmd = "down" -> "Rollback failed"
      [] q.cmd = "redo" -> "Rollback failed"

\* the message of the command for an error of its current half
FailMessage(q) ==
    CASE q.cmd = "up"   -> "Migration failed"
      [] q.cmd = "down" -> "Rollback failed"
      [] q.cmd = "redo" -> IF q.half = "rollback" THEN "Rollback failed"
                           ELSE "Re-apply failed"

\* the command's half (Migrate or Rollback) returned an error
HalfFailed(q) ==
    fatalf([q EXCEPT !.rb = IF q.half = "rollback" THEN "err" ELSE @,
                     !.ap = IF q.half = "apply" THEN "err" ELSE @],
           FailMessage(q))

MLockIgnoresRow(p) ==
    /\ p.pc = "lock"
    /\ LET q == p
       IN IF q.ms = {}
          THEN /\ Settle(p, HalfFailed(q))
               /\ UNCHANGED locked
          ELSE /\ locked' = TRUE
               /\ Settle(p, [q EXCEPT !.pc = "plan"])
    /\ UNCHANGED <<migFrame, disk, nextName, rec, forced, runs, overlapped>>

\* Migrate / Rollback up to the lock: validate, then insert the lock row,
\* which fails when the row exists
MLock(p) ==
    /\ p.pc = "lock"
    /\ LET q == p
       IN IF q.ms = {} \/ locked
          THEN /\ Settle(p, HalfFailed(q))
               /\ UNCHANGED locked
          ELSE /\ locked' = TRUE
               /\ Settle(p, [q EXCEPT !.pc = "plan"])
    /\ UNCHANGED <<migFrame, disk, nextName, rec, forced, runs, overlapped>>

\* the migrations recorded as applied
Applied == {n \in Names : rec[n] # 0}

\* the migrations with their status are read: the unapplied ones in
\* ascending order for Migrate, the last group backwards for Rollback; a
\* redo is remembered with the migrations applied when its rollback began
MPlan(p) ==
    /\ p.pc = "plan"
    /\ LET q == IF p.cmd = "redo" /\ p.half = "rollback"
                THEN [p EXCEPT !.was = Applied] ELSE p
           todo == IF q.half = "apply" THEN Unapplied(q.ms)
                   ELSE LastGroupReversed(q.ms)
           gid  == IF q.half = "apply" THEN LastGroupID(q.ms) + 1
                   ELSE LastGroupID(q.ms)
       IN \E ok \in BOOLEAN :
             Settle(p,
                IF ok
                THEN [q EXCEPT !.todo = todo,
                               !.gid = IF todo = <<>> THEN 0 ELSE gid,
                               !.done = 0,
                               !.pc = IF todo = <<>> THEN "unlock" ELSE "run"]
                ELSE [q EXCEPT !.err = TRUE, !.pc = "unlock"])
    /\ UNCHANGED <<migFrame, disk, nextName, rec, locked, forced, runs, overlapped>>

\* one migration of the group: its record is written first (MarkApplied,
\* MarkUnapplied), then its SQL runs and may fail
MRun(p) ==
    /\ p.pc = "run"
    /\ LET q == p
           n == Head(q.todo)
       IN /\ rec' = [rec EXCEPT ![n] = IF q.half = "apply" THEN q.gid ELSE 0]
          /\ \E ok \in BOOLEAN :
                Settle(p,
                   [q EXCEPT !.todo = Tail(q.todo),
                             !.done = q.done + 1,
                             !.err = ~ok,
                             !.pc = IF ok /\ Tail(q.todo) # <<>> THEN "run"
                                    ELSE "unlock"])
    /\ UNCHANGED <<migFrame, disk, nextName, locked, forced, runs, overlapped>>

\* the deferred Unlock deletes the lock row; Migrate or Rollback returns and
\* the command reports
MUnlock(p) ==
    /\ p.pc = "unlock"
    /\ locked' = FALSE
    /\ LET q == p
       IN Settle(p,
             IF q.err THEN HalfFailed(q)
             ELSE IF q.cmd = "up"
                  THEN Exit([q EXCEPT !.ap = "ok"], 0, "none", "ok")
             ELSE IF q.cmd = "down"
                  THEN Exit([q EXCEPT !.rb = IF q.done = 0 THEN "zero" ELSE "ok"],
                            0, "none", "ok")
             ELSE IF q.half = "rollback"
                  THEN IF q.done = 0
                       \* "No migrations to redo"
                       THEN Exit([q EXCEPT !.rb = "zero"], 0, "none", "ok")
                       ELSE [q EXCEPT !.rb = "ok", !.half = "apply",
                                      !.pc = "lock", !.todo = <<>>,
                                      !.gid = 0, !.done = 0]
             ELSE IF q.done = 0
                  \* group.Migrations[0] of an empty group: the runtime
                  \* panics, the process exits with code 2
                  THEN Exit([q EXCEPT !.ap = "ok"], 2,
                            "panic: index out of range", "fail")
                  ELSE Exit([q EXCEPT !.ap = "ok"], 0, "none", "ok"))
    /\ UNCHANGED <<migFrame, disk, nextName, rec, forced, runs, overlapped>>

\* cmdStatus
MStatus(p) ==
    /\ p.pc = "status"
    /\ \E ok \in BOOLEAN :
          Settle(p,
             IF ok THEN Exit(p, 0, "none", "ok")
             ELSE fatalf(p, "Failed to get migration status"))
    /\ UNCHANGED <<migFrame, disk, nextName, rec, locked, forced, runs, overlapped>>

\* cmdCreate: the up and the down file of a new timestamp
MCreate(p) ==
    /\ p.pc = "create"
    /\ LET q == p
       IN IF q.arg = NoArg
          THEN /\ Settle(p, fatalf(q, "Usage: migrate create <name>"))
               /\ UNCHANGED <<disk, nextName>>
          ELSE \E ok \in IF nextName <= MaxMigs THEN BOOLEAN ELSE {FALSE} :
                 IF ok
                 THEN /\ disk' = disk \cup {File(nextName, "up"),
                                             File(nextName, "down")}
                      /\ nextName' = nextName + 1
                      /\ Settle(p,
                            Exit(q, 0, "none", "ok"))
                 ELSE /\ Settle(p,
                            fatalf(q, "Failed to create migration"))
                      /\ UNCHANGED <<disk, nextName>>
    /\ UNCHANGED <<migFrame, rec, locked, forced, runs, overlapped>>

DeleteSkipsStatus(q) ==
    IF q.arg = NoArg THEN fatalf(q, "Usage: migrate delete <name>")
    ELSE IF \A n \in q.ms : MigrationName(n) # q.arg
         THEN fatalf(q, "Migration not found")
         ELSE [q EXCEPT !.pc = "remove"]

\* cmdDelete up to the removal: the argument, the lookup by name and the
\* refusal for an applied migration
DeleteCheck(q) ==
    IF q.arg = NoArg THEN fatalf(q, "Usage: migrate delete <name>")
    ELSE IF \A n \in q.ms : MigrationName(n) # q.arg
         THEN fatalf(q, "Migration not found")
         ELSE IF rec[q.arg.ts] # 0
              THEN fatalf(q, "Cannot delete applied migration")
              ELSE [q EXCEPT !.pc = "remove"]

MDeleteCheck(p) ==
    /\ p.pc = "delete"
    /\ \E ok \in BOOLEAN :
          Settle(p,
             IF ok \/ p.arg = NoArg THEN DeleteCheck(p)
             ELSE fatalf(p, "Failed to get migration status"))
    /\ UNCHANGED <<migFrame, disk, nextName, rec, locked, forced, runs, overlapped>>

\* os.Remove: fails when the file does not exist, and may fail otherwise
Removable(path) ==
    IF \E f \in disk : f = path THEN BOOLEAN ELSE {FALSE}

\* cmdDelete: the up file is removed, then the down file
MDeleteFiles(p) ==
    /\ p.pc = "remove"
    /\ LET q    == p
           up   == FilePath(q.arg, "up")
           down == FilePath(q.arg, "down")
       IN \E upOk \in Removable(up) : \E downOk \in Removable(down) :
             IF ~upOk
             THEN /\ disk' = disk
                  /\ Settle(p, fatalf(q, "Failed to delete up file"))
             ELSE IF ~downOk
                  THEN /\ disk' = disk \ {up}
                       /\ Settle(p,
                             fatalf(q, "Failed to delete down file"))
                  ELSE /\ disk' = disk \ {up, down}
                       /\ Settle(p,
                             Exit(q, 0, "none", "ok"))
    /\ UNCHANGED <<migFrame, nextName, rec, locked, forced, runs, overlapped>>

\* cmdLock: the lock is taken to see whether it is free; any error of Lock
\* is reported as LOCKED and the command returns
MLockCmd(p) ==
    /\ p.pc = "lockcmd"
    /\ LET q == p
       IN \E dbOk \in BOOLEAN :
             IF locked \/ ~dbOk
             THEN /\ Settle(p,
                        \* "Lock status: LOCKED"
                        Exit(q, 0, "none", IF locked THEN "ok" ELSE "fail"))
                  /\ UNCHANGED locked
             ELSE /\ locked' = TRUE
                  /\ Settle(p, [q EXCEPT !.pc = "lockrelease"])
    /\ UNCHANGED <<migFrame, disk, nextName, rec, forced, runs, overlapped>>

\* cmdLock got the lock: Unlock deletes the row or fails, its error is
\* dropped, and the command prints AVAILABLE
MLockRelease(p) ==
    /\ p.pc = "lockrelease"
    /\ \E ok \in BOOLEAN :
          /\ locked' = ~ok
          /\ Settle(p, Exit(p, 0, "none", IF ok THEN "ok" ELSE "fail"))
    /\ UNCHANGED <<migFrame, disk, nextName, rec, forced, runs, overlapped>>

\* the lock row is the row of a command that is between Lock and Unlock
HeldByCommand ==
    \E p \in Running : p.pc \in {"plan", "run", "unlock", "lockrelease"}

\* cmdUnlock: the lock row is deleted, whoever inserted it
MUnlockCmd(p) ==
    /\ p.pc = "unlockcmd"
    /\ \E ok \in BOOLEAN :
          IF ok
          THEN /\ locked' = FALSE
               /\ forced' = (forced \/ (locked /\ HeldByCommand))
               /\ Settle(p,
                     Exit(p, 0, "none", "ok"))
          ELSE /\ Settle(p, fatalf(p, "Failed to unlock"))
               /\ UNCHANGED <<locked, forced>>
    /\ UNCHANGED <<migFrame, disk, nextName, rec, runs, overlapped>>

NextMig ==
    \/ \E cmd \in Commands : \E arg \in Args(cmd) : MMain(cmd, arg)
    \/ \E p \in Running : MLock(p)
    \/ \E p \in Running : MPlan(p)
    \/ \E p \in Running : MRun(p)
    \/ \E p \in Running : MUnlock(p)
    \/ \E p \in Running : MStatus(p)
    \/ \E p \in Running : MCreate(p)
    \/ \E p \in Running : MDeleteCheck(p)
    \/ \E p \in Running : MDeleteFiles(p)
    \/ \E p \in Running : MLockCmd(p)
    \/ \E p \in Running : MLockRelease(p)
    \/ \E p \in Running : MUnlockCmd(p)

-----------------------------------------------------------------------------
(* cmd/server/main.go: listener goroutine, signal, drain, database close *)

MainState(listener) ==
    /\ mainpc = "waiting"
    /\ lpc = listener
    /\ quit = 0
    /\ inShutdown = FALSE
    /\ dbOpen = TRUE
    /\ exited = FALSE
    /\ exitCode = 0
    /\ conn = [c \in Conns |-> "none"]
    /\ connRes = [c \in Conns |-> "none"]
    /\ mlog = {}
    /\ drainErr = "none"
    /\ closeErr = FALSE
    /\ inFlight = {}
    /\ lateAccept = {}
    /\ doneAt = [c \in Conns |-> "none"]

\* main has started the listener goroutine and waits for a signal
InitMain == MainState("starting")

Active == {c \in Conns : conn[c] = "active"}

\* os.Exit, or main returning: the connections still open are cut
CutAll == [c \in Conns |-> IF conn[c] = "active" THEN "cut" ELSE conn[c]]

\* e.Start bound the port and serves
ListenOk ==
    /\ ~exited
    /\ lpc = "starting"
    /\ ~inShutdown
    /\ lpc' = "listening"
    /\ UNCHANGED <<httpVars, extVars, mainpc, quit, inShutdown, dbOpen, exited, exitCode, conn,
                   connRes, mlog, drainErr, closeErr, inFlight, lateAccept,
                   doneAt>>

ListenFailLogsOnly ==
    /\ ~exited
    /\ lpc = "starting"
    /\ lpc' = "failed"
    /\ mlog' = mlog \cup {"server error"}
    /\ UNCHANGED <<httpVars, extVars, mainpc, quit, inShutdown, dbOpen, exited, exitCode, conn,
                   connRes, drainErr, closeErr, inFlight, lateAccept, doneAt>>

\* e.Start returned an error that is not http.ErrServerClosed: log, os.Exit(1)
ListenFail ==
    /\ ~exited
    /\ lpc = "starting"
    /\ lpc' = "failed"
    /\ mlog' = mlog \cup {"server error"}
    /\ exited' = TRUE
    /\ exitCode' = 1
    /\ conn' = CutAll
    /\ UNCHANGED <<httpVars, extVars, mainpc, quit, inShutdown, dbOpen, connRes, drainErr,
                   closeErr, inFlight, lateAccept, doneAt>>

\* e.Start returned http.ErrServerClosed: the goroutine ends
ServeClosed ==
    /\ ~exited
    /\ lpc \in {"starting", "listening"}
    /\ inShutdown
    /\ lpc' = "closed"
    /\ UNCHANGED <<httpVars, extVars, mainpc, quit, inShutdown, dbOpen, exited, exitCode, conn,
                   connRes, mlog, drainErr, closeErr, inFlight, lateAccept,
                   doneAt>>

\* SIGINT or SIGTERM is delivered to the process
Signal ==
    /\ ~exited
    /\ quit = 0
    /\ quit' = 1
    /\ UNCHANGED <<httpVars, extVars, mainpc, lpc, inShutdown, dbOpen, exited, exitCode, conn,
                   connRes, mlog, drainErr, closeErr, inFlight, lateAccept,
                   doneAt>>

AcceptingAlways == lpc = "listening"

\* the listener accepts connections until e.Shutdown closes it
Accepting == lpc = "listening" /\ ~inShutdown

Accept(c) ==
    /\ ~exited
    /\ conn[c] = "none"
    /\ Accepting
    /\ conn' = [conn EXCEPT ![c] = "active"]
    /\ lateAccept' = IF inShutdown THEN lateAccept \cup {c} ELSE lateAccept
    /\ UNCHANGED <<httpVars, extVars, mainpc, lpc, quit, inShutdown, dbOpen, exited, exitCode,
                   connRes, mlog, drainErr, closeErr, inFlight, doneAt>>

\* a connection attempt while nothing listens
Refuse(c) ==
    /\ ~exited
    /\ conn[c] = "none"
    /\ ~Accepting
    /\ conn' = [conn EXCEPT ![c] = "refused"]
    /\ UNCHANGED <<httpVars, extVars, mainpc, lpc, quit, inShutdown, dbOpen, exited, exitCode,
                   connRes, mlog, drainErr, closeErr, inFlight, lateAccept,
                   doneAt>>

\* the handler of an accepted request completes and its response is sent;
\* a handler that finds the pool closed answers with a database error
Handle(c) ==
    /\ ~exited
    /\ conn[c] = "active"
    /\ conn' = [conn EXCEPT ![c] = "done"]
    /\ connRes' = [connRes EXCEPT ![c] = IF dbOpen THEN "normal" ELSE "dbClosed"]
    /\ doneAt' = [doneAt EXCEPT ![c] = mainpc]
    /\ UNCHANGED <<httpVars, extVars, mainpc, lpc, quit, inShutdown, dbOpen, exited, exitCode,
                   mlog, drainErr, closeErr, inFlight, lateAccept>>

\* sig := <-quit, then e.Shutdown(ctx) closes the listener and starts to wait
Receive ==
    /\ ~exited
    /\ mainpc = "waiting"
    /\ quit = 1
    /\ quit' = 0
    /\ mlog' = mlog \cup {"shutting down server"}
    /\ inShutdown' = TRUE
    /\ inFlight' = Active
    /\ mainpc' = "draining"
    /\ UNCHANGED <<httpVars, extVars, lpc, dbOpen, exited, exitCode, conn, connRes, drainErr,
                   closeErr, lateAccept, doneAt>>

\* e.Shutdown returns once no connection is active
DrainDone ==
    /\ ~exited
    /\ mainpc = "draining"
    /\ Active = {}
    /\ \E e \in {"none", "listener"} :
          /\ drainErr' = e
          /\ mlog' = IF e = "none" THEN mlog
                     ELSE mlog \cup {"server shutdown error"}
    /\ mainpc' = "dbclose"
    /\ UNCHANGED <<httpVars, extVars, lpc, quit, inShutdown, dbOpen, exited, exitCode, conn,
                   connRes, closeErr, inFlight, lateAccept, doneAt>>

\* the grace period ends with connections still active: e.Shutdown returns
\* the context's error and leaves those connections as they are
DrainTimeout ==
    /\ ~exited
    /\ mainpc = "draining"
    /\ Active # {}
    /\ drainErr' = "deadline"
    /\ mlog' = mlog \cup {"server shutdown error"}
    /\ mainpc' = "dbclose"
    /\ UNCHANGED <<httpVars, extVars, lpc, quit, inShutdown, dbOpen, exited, exitCode, conn,
                   connRes, closeErr, inFlight, lateAccept, doneAt>>

DbCloseFatal ==
    /\ ~exited
    /\ mainpc = "dbclose"
    /\ dbOpen' = FALSE
    /\ \E e \in BOOLEAN :
          /\ closeErr' = e
          /\ mlog' = (mlog \cup {"closing database connection"})
                        \cup (IF e THEN {"database close error"} ELSE {})
          /\ IF e THEN /\ exited' = TRUE
                       /\ exitCode' = 1
                       /\ conn' = CutAll
                       /\ mainpc' = mainpc
                  ELSE /\ mainpc' = "stopped"
                       /\ UNCHANGED <<exited, exitCode, conn>>
    /\ UNCHANGED <<httpVars, extVars, lpc, quit, inShutdown, connRes, drainErr, inFlight,
                   lateAccept, doneAt>>

\* database.Close(db): the pool is closed; an error is logged
DbClose ==
    /\ ~exited
    /\ mainpc = "dbclose"
    /\ dbOpen' = FALSE
    /\ \E e \in BOOLEAN :
          /\ closeErr' = e
          /\ mlog' = (mlog \cup {"closing database connection"})
                        \cup (IF e THEN {"database close error"} ELSE {})
    /\ mainpc' = "stopped"
    /\ UNCHANGED <<httpVars, extVars, lpc, quit, inShutdown, exited, exitCode, conn, connRes,
                   drainErr, inFlight, lateAccept, doneAt>>

\* logger.Info("server stopped"); main returns
Stop ==
    /\ ~exited
    /\ mainpc = "stopped"
    /\ mlog' = mlog \cup {"server stopped"}
    /\ mainpc' = "exited"
    /\ exited' = TRUE
    /\ exitCode' = 0
    /\ conn' = CutAll
    /\ UNCHANGED <<httpVars, extVars, lpc, quit, inShutdown, dbOpen, connRes, drainErr, closeErr,
                   inFlight, lateAccept, doneAt>>

NextMain ==
    \/ ListenOk
    \/ ListenFail
    \/ ServeClosed
    \/ Signal
    \/ \E c \in Conns : Accept(c)
    \/ \E c \in Conns : Refuse(c)
    \/ \E c \in Conns : Handle(c)
    \/ Receive
    \/ DrainDone
    \/ DrainTimeout
    \/ DbClose
    \/ Stop

\* the server process from its start, with no request in the chain
InitServer ==
    /\ InitMain
    /\ InitHttp
    /\ InitExt
    /\ cfgTimeout = TRUE

SpecMain == InitServer /\ [][NextMain]_vars

\* the main goroutine keeps running: e.Shutdown returns when the drain ends
\* or the grace period does, and the steps after it do not block
SpecMainFair ==
    /\ SpecMain
    /\ WF_vars(DrainDone \/ DrainTimeout)
    /\ WF_vars(DbClose)
    /\ WF_vars(Stop)

\* the middleware chain of a server that is listening
InitServing ==
    /\ InitHttp
    /\ InitExt
    /\ MainState("listening")

SpecHttp == InitServing /\ [][NextHttp]_vars

\* the CORS stage of a listening server, for every value of the setting
InitCorsServing ==
    /\ InitHttp
    /\ cfgTimeout = TRUE
    /\ MainState("listening")
    /\ InitCors
    /\ InitMig
    /\ CallIdle
    /\ StageIdle

SpecCors == InitCorsServing /\ [][NextCors]_vars

\* the error handler called with every error, request and response
Accepts == {"none", JSONType, "text/html"}

ContentTypes == {"none", JSONType, "application/x-www-form-urlencoded"}

\* a response nothing was written to, one committed by c.HTML, and one the
\* page was rendered to through its writer
ErrResponses ==
    {NewResponse, EchoRespond(NewResponse, 200, "fragment"),
     WriterWrite(NewResponse, "page")}

ErrCalls ==
    [fn : {"customErrorHandler"}, err : Errors,
     rq : {[NoReq EXCEPT !.route = "home", !.hx = h, !.accept = a, !.ctype = t]
             : h \in BOOLEAN, a \in Accepts, t \in ContentTypes},
     r  : ErrResponses]

InitErr ==
    /\ InitHttp
    /\ cfgTimeout = TRUE
    /\ MainState("listening")
    /\ CorsIdle
    /\ InitMig
    /\ call \in ErrCalls
    /\ ret = [done |-> FALSE]
    /\ StageIdle

HandleError ==
    /\ call.fn = "customErrorHandler"
    /\ ~ret.done
    /\ ret' = [done |-> TRUE, r |-> customErrorHandler(call.r, call.err, call.rq)]
    /\ UNCHANGED <<httpVars, mainVars, corsVars, migVars, stageVars, call>>

NextErr == HandleError

SpecErr == InitErr /\ [][NextErr]_vars

-----------------------------------------------------------------------------
(* AddFlash and GetFlashes called on one session *)

MaxFlashes == 3

InitFlash ==
    /\ InitHttp
    /\ cfgTimeout = TRUE
    /\ MainState("listening")
    /\ CorsIdle
    /\ InitMig
    /\ StageIdle
    /\ call = [fn |-> "New"]
    /\ ret = [done |-> TRUE, s |-> EmptySession, out |-> <<>>, added |-> 0]

flashCallFrame == <<httpVars, mainVars, corsVars, migVars, stageVars>>

\* AddFlash(c, flashType, message) with a fresh message
CallAddFlash(flashType) ==
    /\ call.fn \in {"New", "AddFlash", "GetFlashes"}
    /\ ret.added < MaxFlashes
    /\ call' = [fn |-> "AddFlash", flashType |-> flashType,
                message |-> ret.added + 1]
    /\ ret' = [ret EXCEPT !.s = AddFlash(@, flashType, ret.added + 1),
                          !.added = @ + 1,
                          !.out = <<>>]
    /\ UNCHANGED flashCallFrame

\* GetFlashes(c): the messages it returns, and the session it leaves
CallGetFlashes ==
    /\ call.fn \in {"New", "AddFlash", "GetFlashes"}
    /\ call' = [fn |-> "GetFlashes"]
    /\ ret' = [ret EXCEPT !.s = GetFlashesSession(@),
                          !.out = GetFlashes(ret.s)]
    /\ UNCHANGED flashCallFrame

NextFlash ==
    \/ \E t \in FlashTypes : CallAddFlash(t)
    \/ CallGetFlashes

SpecFlash == InitFlash /\ [][NextFlash]_vars

-----------------------------------------------------------------------------
(* The order of the stages: Setup registers them with e.Use, the first one  *)
(* outermost, and a request walks in through them, reaches the handler and  *)
(* walks out.  An active timeout stage runs the stages inside it in a       *)
(* goroutine of its own and stops waiting for it at the deadline.           *)

Environments == {"development", "production"}

SetupSessionFirst(e) ==
    <<"RequestID", "requestLogger", "recover", "session", "Timeout", "CORS">>
        \o (IF e = "production" THEN <<"Gzip">> ELSE <<>>)

\* the stages in the order of their e.Use calls
Setup(e) ==
    <<"RequestID", "requestLogger", "recover", "Timeout", "CORS", "session">>
        \o (IF e = "production" THEN <<"Gzip">> ELSE <<>>)

\* the stages the request is inside, outermost first
Inside == sIn \o hIn

\* the stages from the timeout stage's next(c) on run in its goroutine
Spawned == tmo /\ (fired \/ (sIn # <<>> /\ sIn[Len(sIn)] = "Timeout"))

Pop(q) == SubSeq(q, 1, Len(q) - 1)

\* the place of the timeout stage in the chain
TimeoutAt == CHOOSE k \in 1..Len(Setup(cfgEnv)) : Setup(cfgEnv)[k] = "Timeout"

\* how many stages the request has entered on its way in
Depth == IF Spawned THEN TimeoutAt + Len(hIn) ELSE Len(sIn)

InitStages ==
    /\ InitHttp
    /\ cfgTimeout = TRUE
    /\ MainState("listening")
    /\ CorsIdle
    /\ InitMig
    /\ CallIdle
    /\ cfgEnv \in Environments
    /\ tmo \in BOOLEAN
    /\ isPreflight \in BOOLEAN
    /\ sIn = <<>>
    /\ hIn = <<>>
    /\ walk = "in"
    /\ ended = "none"
    /\ fired = FALSE
    /\ saved = FALSE

stageFrame == <<httpVars, mainVars, corsVars, migVars, callVars, cfgEnv, tmo,
                isPreflight>>

\* the code of the next stage before its next(c); CORS answers a isPreflight
\* itself
Enter ==
    /\ walk = "in"
    /\ Depth < Len(Setup(cfgEnv))
    /\ LET s == Setup(cfgEnv)[Depth + 1]
       IN /\ IF Spawned THEN hIn' = Append(hIn, s) /\ sIn' = sIn
                        ELSE sIn' = Append(sIn, s) /\ hIn' = hIn
          /\ IF s = "CORS" /\ isPreflight
             THEN walk' = "out" /\ ended' = "preflight"
             ELSE walk' = walk /\ ended' = ended
    /\ UNCHANGED <<stageFrame, fired, saved>>

\* the innermost stage calls the route handler
CallHandler ==
    /\ walk = "in"
    /\ Depth = Len(Setup(cfgEnv))
    /\ walk' = "handler"
    /\ UNCHANGED <<stageFrame, sIn, hIn, ended, fired, saved>>

\* the handler returns nil or an error, or panics
HandlerEnds(o) ==
    /\ walk = "handler"
    /\ walk' = "out"
    /\ ended' = o
    /\ UNCHANGED <<stageFrame, sIn, hIn, fired, saved>>

\* session.Save is the session stage's code after next(c); a panic passes it
Saves(s) == s = "session" /\ ended # "panic"

\* the timeout stage's goroutine leaves its innermost stage
LeaveH ==
    /\ walk = "out"
    /\ hIn # <<>>
    /\ saved' = (saved \/ Saves(hIn[Len(hIn)]))
    /\ hIn' = Pop(hIn)
    /\ UNCHANGED <<stageFrame, sIn, walk, ended, fired>>

\* the serving goroutine leaves its innermost stage when the chain inside
\* has returned
LeaveS ==
    /\ walk = "out"
    /\ ~fired
    /\ hIn = <<>>
    /\ sIn # <<>>
    /\ saved' = (saved \/ Saves(sIn[Len(sIn)]))
    /\ sIn' = Pop(sIn)
    /\ UNCHANGED <<stageFrame, hIn, walk, ended, fired>>

\* the deadline passes before the goroutine of the timeout stage is done
Fire ==
    /\ Spawned
    /\ ~fired
    /\ walk \in {"in", "handler"} \/ hIn # <<>>
    /\ fired' = TRUE
    /\ UNCHANGED <<stageFrame, sIn, hIn, walk, ended, saved>>

\* after the timeout the serving goroutine leaves its stages on its own
LeaveFired ==
    /\ fired
    /\ sIn # <<>>
    /\ sIn' = Pop(sIn)
    /\ UNCHANGED <<stageFrame, hIn, walk, ended, fired, saved>>

NextStages ==
    \/ Enter
    \/ CallHandler
    \/ \E o \in {"ok", "err", "panic"} : HandlerEnds(o)
    \/ LeaveH
    \/ LeaveS
    \/ Fire
    \/ LeaveFired

SpecStages == InitStages /\ [][NextStages]_vars

\* the invocations of the migration CLI against one database
InitMigrate ==
    /\ InitHttp
    /\ cfgTimeout = TRUE
    /\ MainState("starting")
    /\ CorsIdle
    /\ InitMigs
    /\ CallIdle
    /\ StageIdle

SpecMigrate == InitMigrate /\ [][NextMig]_vars

-----------------------------------------------------------------------------
(* Properties of the middleware chain *)

\* the request sent last has been answered
Answered == spc = "idle" /\ reqNo > 0

\* C1: every response delivered to the client carries a session cookie,
\* whatever the route and the outcome of the request.
C1_CookieOnEveryResponse ==
    Answered => client.resp.cookie.present

\* C2: a flash message added during a request and returned by GetFlashes in
\* that same request is returned exactly once: no later request of the client
\* gets it from GetFlashes again.
C2_FlashReturnedOnce ==
    \A m \in Msgs :
        (returned[m] # <<>> /\ returned[m][1] = addedIn[m])
            => Len(returned[m]) = 1

\* a later GET / has run GetFlashes with the cookie of the response of the
\* request that added and read the message
C2_Witness ==
    \E m \in Msgs :
        /\ addedIn[m] > 0
        /\ returned[m] = <<addedIn[m]>>
        /\ reqNo > addedIn[m]
        /\ req.route = "home"
        /\ req.jarFrom = addedIn[m]
        /\ hpc = "handler"
        /\ ip > 1

\* C3: a flash message added by POST /greet (no HX-Request) whose redirect
\* reached the client is returned by GetFlashes in the next GET / exactly
\* once, and not in the GET / after that.
C3_GreetFlashShownOnce ==
    \A m \in redirected :
        homeGets[m] >= 1 => Len(returned[m]) = 1

\* C9: a request in which a panic was raised has the panic logged with the
\* request ID of its response, and receives the generic server-error response.
C9_PanicRecovered ==
    (Answered /\ hpc = "panicked")
        => /\ panicLog.logged
           /\ panicLog.rid = client.resp.rid
           /\ client.resp.status = 500
           /\ client.resp.body \in {"errorPage", "errorFragment"}

\* C10: the response of every request carries a request-ID header whose
\* value is the request_id of the request's access-log entry.
C10_RequestIdMatchesLog ==
    Answered
        => /\ accessLog.logged
           /\ client.resp.rid # NoRid
           /\ accessLog.rid = client.resp.rid

\* the deadline of the request's context has passed, the timeout stage has
\* not acted on it yet and the inner chain has not returned
TimedOutPending ==
    /\ cfgTimeout
    /\ spc = "select"
    /\ res.expired
    /\ hpc \notin {"finished", "panicked"}

\* C11: when the deadline passes before the handler has finished, the
\* timeout stage can answer at once, and its answer is the timeout response
\* (503), sent without any step of the handler, whose request context is
\* the cancelled one.
C11_TimeoutAtDeadline ==
    /\ [](TimedOutPending => ENABLED TimeoutFires)
    /\ [][ (TimedOutPending /\ spc' # spc)
              => /\ res'.wire.sent
                 /\ res'.wire.status = 503
                 /\ res'.wire.body = "timeout"
                 /\ res'.expired
                 /\ hpc' = hpc ]_vars

\* the client has the timeout response while the handler is still running
C11_Witness ==
    /\ Answered
    /\ client.resp.status = 503
    /\ client.resp.body = "timeout"
    /\ res.expired
    /\ hpc \in {"spawned", "cors", "session", "handler", "save", "exit"}

\* C12: when every entry of the configured list is a specific origin, a
\* request (preflight or not) whose Origin is not in the list gets no
\* Access-Control-Allow-Origin header naming its origin.
C12_ForeignOriginNotAllowed ==
    LET list == corsOrigins(corsEnv)
    IN (/\ corsRes.answered
        /\ corsReq.origin # "none"
        /\ \A i \in 1..Len(list) : Specific(list[i]) /\ list[i] # <<corsReq.origin>>)
           => corsRes.acao \notin {corsReq.origin, "*"}

\* CORS_ALLOWED_ORIGINS = "https://a.com, https://b.com" and a preflight
\* from another origin has been answered
C12_Witness ==
    /\ corsEnv = <<OriginA, ",", " ", OriginB>> \/ corsEnv = <<OriginA, ",", OriginB>>
    /\ corsRes.answered
    /\ corsReq = [origin |-> OriginSub, preflight |-> TRUE]
    /\ corsRes.status = 204

\* the request sent last was GET /health and the client has the response
\* its handler wrote
HealthAnswered ==
    /\ Answered
    /\ req.route = "health"
    /\ hpc = "finished"
    /\ client.resp.body # "timeout"

\* C19: when the session stage reads a request whose session cookie does not
\* verify, it logs the warning, gives the handler the empty session a request
\* without a cookie gets, and calls the handler without an error and without
\* having written to the response.
C19_CorruptCookieStartsFresh ==
    [][ (hpc = "session" /\ hpc' # hpc /\ req.cookie.present /\ req.tampered)
           => /\ warnLog'
              /\ sess' = sessionStoreGet([req EXCEPT !.cookie = NoCookie]).session
              /\ sess' = EmptySession
              /\ hpc' = "handler"
              /\ herr' = "none"
              /\ res' = res ]_vars

\* a GET / sent with an altered cookie that carried a flash message was
\* answered with the page, the warning is in the log
C19_Witness ==
    /\ Answered
    /\ req.route = "home"
    /\ req.tampered
    /\ req.cookie.val # EmptySession
    /\ warnLog
    /\ client.resp.status = 200
    /\ client.resp.body = "page"

\* the step hands a panic or a returned error to the terminal error handler
\* while the response is committed
ErrorAfterCommit ==
    /\ res.committed
    /\ \/ spc = "select" /\ hpc = "panicked" /\ panicLog' # panicLog
       \/ spc = "finish" /\ serr # "none" /\ spc' = "idle"

\* C20: the error handler invoked for a committed response leaves the
\* response's status, headers, buffer and the bytes already on the connection
\* as they are, so that the step ends as it would without the error; and what
\* has been sent on the connection for a request is not written over: the
\* request has one response.
C20_CommittedNotOverwritten ==
    /\ [][ ErrorAfterCommit
             => /\ res'.status = res.status
                /\ res'.hdr = res.hdr
                /\ res' = IF spc = "finish" THEN RealWriteHeader(res, 200)
                                            ELSE res ]_vars
    /\ [][ (res.wire.sent /\ reqNo' = reqNo) => res'.wire = res.wire ]_vars

\* C21: called with an error and a response nothing has been written to,
\* the error handler sends one response with the error's status (the code of
\* an HTTP error, 500 otherwise) and one body: the JSON body when Accept or
\* Content-Type is application/json, else the fragment when HX-Request is
\* true, else the error page.
C21_ErrorBodyByPreference ==
    (/\ ret.done
     /\ call.fn = "customErrorHandler"
     /\ ~call.r.committed
     /\ ~call.r.wire.sent)
        => /\ ret.r.committed
           /\ ret.r.wire.sent
           /\ ret.r.wire.status = (IF call.err = "generic" THEN 500
                                   ELSE IF call.err = "http404" THEN 404
                                   ELSE IF call.err = "http405" THEN 405
                                   ELSE 503)
           /\ ret.r.status = ret.r.wire.status
           /\ LET json == JSONType \in {call.rq.accept, call.rq.ctype}
              IN /\ json => ret.r.wire.body = "errorJSON"
                 /\ (~json /\ call.rq.hx) => ret.r.wire.body = "errorFragment"
                 /\ (~json /\ ~call.rq.hx) => ret.r.wire.body = "errorPage"

\* a partial request that also asks for JSON got the JSON body of a 404
C21_Witness ==
    /\ ret.done
    /\ call.fn = "customErrorHandler"
    /\ call.r = NewResponse
    /\ call.rq.hx
    /\ call.rq.accept = JSONType
    /\ call.err = "http404"
    /\ ret.r.wire.status = 404
    /\ ret.r.wire.body = "errorJSON"

\* q is the beginning of chain
IsPrefix(q, chain) ==
    /\ Len(q) <= Len(chain)
    /\ \A k \in 1..Len(q) : q[k] = chain[k]

SixStages ==
    <<"RequestID", "requestLogger", "recover", "Timeout", "CORS", "session">>

\* C22 as stated: at every moment the stages the request is inside are the
\* first ones of request-ID, access-log, panic-recovery, timeout, CORS,
\* session (entered in that order, left in the reverse order), and while the
\* handler runs the request is inside exactly these six, session innermost.
C22_StagesStrictlyNested ==
    /\ IsPrefix(Inside, SixStages)
    /\ walk = "handler" => Inside = SixStages

\* C22 amended: the stages are entered in the order of Setup, which in
\* production puts the compression stage inside the session stage; they
\* are left in the reverse order as long as the timeout stage has not
\* stopped waiting, and after that each goroutine leaves its own stages in
\* the reverse order; the handler runs inside CORS and session with nothing
\* but the compression stage between the session stage and itself; and
\* the session is saved only after the handler has returned.
C22_StagesNestedUntilTimeout ==
    /\ [](walk # "idle" =>
            /\ ~fired => IsPrefix(Inside, Setup(cfgEnv))
            /\ IsPrefix(sIn, Setup(cfgEnv))
            /\ \A k \in 1..Len(hIn) : hIn[k] = Setup(cfgEnv)[TimeoutAt + k]
            /\ walk = "handler" =>
                  (IF tmo THEN hIn ELSE SubSeq(sIn, 5, Len(sIn)))
                     = <<"CORS", "session">>
                          \o (IF cfgEnv = "production" THEN <<"Gzip">>
                              ELSE <<>>))
    /\ [][ (saved' /\ ~saved) => (walk = "out" /\ ended \in {"ok", "err"}) ]_vars

\* in production, after a timeout, the serving goroutine has left all its
\* stages and the session stage has saved the session after the handler
C22_Witness ==
    /\ cfgEnv = "production"
    /\ fired
    /\ sIn = <<>>
    /\ ended = "ok"
    /\ saved

\* C23: an answered request has its access-log entry, at error level when
\* the status of its response is 500 or more, at warning level when it is
\* 400..499 and at info level otherwise.
C23_AccessLogLevel ==
    Answered
        => /\ accessLog.logged
           /\ client.resp.status >= 500 => accessLog.level = "error"
           /\ client.resp.status \in 400..499 => accessLog.level = "warn"
           /\ client.resp.status < 400 => accessLog.level = "info"

\* the entry's level follows the status the logger recorded
LevelOfLoggedStatus ==
    accessLog.logged
        => /\ accessLog.status >= 500 => accessLog.level = "error"
           /\ accessLog.status \in 400..499 => accessLog.level = "warn"
           /\ accessLog.status < 400 => accessLog.level = "info"

\* the messages of a sequence of FlashMessage
MessagesOf(out) == {out[i].Message : i \in 1..Len(out)}

\* the messages a session holds under the keys of K
StoredIn(s, K) ==
    UNION {{s[t][i] : i \in 1..Len(s[t])} : t \in K}

\* C24: GetFlashes returns every message stored under the success, error,
\* warning and info buckets, each once and with its bucket as type, and
\* leaves these buckets empty; a GetFlashes that follows a GetFlashes returns
\* no message.
C24_GetFlashesReadOnce ==
    [][ call'.fn = "GetFlashes"
          => /\ MessagesOf(ret'.out) = StoredIn(ret.s, Buckets)
             /\ Len(ret'.out) = Cardinality(StoredIn(ret.s, Buckets))
             /\ \A i \in 1..Len(ret'.out) :
                   \E k \in 1..Len(ret.s[ret'.out[i].Type]) :
                      ret.s[ret'.out[i].Type][k] = ret'.out[i].Message
             /\ StoredIn(ret'.s, Buckets) = {}
             /\ call.fn = "GetFlashes" => ret'.out = <<>> ]_vars

\* two messages of different buckets were returned and are gone
C24_Witness ==
    /\ call.fn = "GetFlashes"
    /\ Len(ret.out) = 2
    /\ ret.out[1].Type # ret.out[2].Type
    /\ StoredIn(ret.s, FlashTypes) = {}

\* C27: after GetFlashes no message is left in the session under any key,
\* and GetFlashes has returned every message the session held.
C27_NoFlashLeftBehind ==
    /\ [](call.fn = "GetFlashes" => StoredIn(ret.s, FlashTypes) = {})
    /\ [][ call'.fn = "GetFlashes"
             => StoredIn(ret.s, FlashTypes) \subseteq MessagesOf(ret'.out) ]_vars

\* C13: the response of GET /health is 200 with status healthy and database
\* connected exactly when the probe of the database succeeded, and 503 with
\* status unhealthy and database disconnected exactly when it failed; both
\* bodies have a timestamp.
C13_HealthReflectsProbe ==
    HealthAnswered
        => /\ probe \in {"ok", "failed"}
           /\ probe = "ok"
                 <=> (client.resp.status = 200 /\ client.resp.body = HealthyBody)
           /\ probe = "failed"
                 <=> (client.resp.status = 503 /\ client.resp.body = UnhealthyBody)

\* the probe failed and the client has the 503 of the handler
C13_Witness ==
    /\ HealthAnswered
    /\ probe = "failed"
    /\ client.resp.status = 503
    /\ client.resp.body = UnhealthyBody

-----------------------------------------------------------------------------
(* Properties of the shutdown sequence *)

\* C4: the database pool is never closed while a request handler is still
\* running.
C4_PoolClosedAfterHandlers ==
    ~dbOpen => Active = {}

\* C5: once the termination signal has been received no new connection is
\* accepted, and every request in flight at that moment that completes while
\* the server drains receives its normal response.
C5_DrainServesInFlight ==
    /\ lateAccept = {}
    /\ \A c \in inFlight :
          (conn[c] = "done" /\ doneAt[c] = "draining") => connRes[c] = "normal"

\* a request in flight at the signal completed during the drain, and a
\* connection attempt made after the signal was refused
C5_Witness ==
    /\ inShutdown
    /\ \E c \in inFlight : conn[c] = "done" /\ doneAt[c] = "draining"
    /\ \E c \in Conns \ inFlight : conn[c] = "refused"

\* C6: when the grace period has elapsed with requests in flight, their
\* connections have been closed by the time the shutdown sequence goes on to
\* close the database.
C6_AbandonedBeforeDbClose ==
    (drainErr = "deadline" /\ mainpc = "dbclose") => Active = {}

\* C7: a failure of the listener to start logs the error and exits the
\* process with code 1 in that step, running neither the server shutdown nor
\* the database close, and nothing runs afterwards; the listener returning
\* because of the shutdown does not exit the process.
C7_ListenFailureFatal ==
    [][ /\ (lpc' = "failed" /\ lpc # "failed")
            => /\ exited' /\ exitCode' = 1
               /\ "server error" \in mlog'
               /\ UNCHANGED <<mainpc, inShutdown, dbOpen>>
        /\ lpc = "failed" => UNCHANGED mainVars
        /\ (lpc' = "closed" /\ lpc # "closed")
            => /\ inShutdown
               /\ UNCHANGED <<exited, exitCode, mlog>> ]_vars

\* the listener failed while main waited for a signal
C7_Witness ==
    /\ lpc = "failed"
    /\ exited /\ exitCode = 1
    /\ mainpc = "waiting"
    /\ dbOpen /\ ~inShutdown

\* the shutdown sequence has run to its end: every error was logged, the
\* database close was attempted and main returned
Stopped ==
    /\ mainpc = "exited"
    /\ exited /\ exitCode = 0
    /\ ~dbOpen
    /\ {"closing database connection", "server stopped"} \subseteq mlog
    /\ drainErr # "none" => "server shutdown error" \in mlog
    /\ closeErr => "database close error" \in mlog

\* C8: once a listening server has received the termination signal the
\* shutdown sequence runs to the end: an error of the drain (the grace
\* period's expiry included) or of the database close is logged and does not
\* stop it.
C8_ShutdownRunsToEnd ==
    (mainpc = "draining" /\ lpc \in {"listening", "closed"}) ~> Stopped

\* the sequence ended after both the drain and the close returned an error
C8_Witness ==
    /\ Stopped
    /\ drainErr = "deadline"
    /\ closeErr

-----------------------------------------------------------------------------
(* Properties of the migration CLI *)

\* process p is at cmdDelete with the name of an applied migration
DeletesApplied(p) ==
    /\ p.pc = "delete"
    /\ p.arg.ts \in Names
    /\ rec[p.arg.ts] # 0

\* C14: the delete command given a migration that is applied ends with exit
\* code 1 and a message on standard error in its next step, and removes no
\* file of the migrations directory.
C14_DeleteAppliedRefused ==
    [][ \A p \in Running :
          (DeletesApplied(p) /\ CopiesIn(p, proc') < CopiesIn(p, proc))
             => /\ BagCardinality(proc') < BagCardinality(proc)
                /\ last'.cmd = "delete"
                /\ last'.code = 1
                /\ last'.errmsg # "none"
                /\ disk' = disk ]_vars

\* a delete of an applied migration was refused, and its files are there
C14_Witness ==
    /\ last.cmd = "delete"
    /\ last.errmsg = "Cannot delete applied migration"
    /\ last.code = 1
    /\ \E n \in Names :
          rec[n] # 0 /\ {File(n, "up"), File(n, "down")} \subseteq disk

\* an invocation of up, down or redo between its Lock and its Unlock
InCritical(p) ==
    /\ p.cmd \in {"up", "down", "redo"}
    /\ p.pc \in {"plan", "run", "unlock"}

C16_AppliedInNameOrder ==
    [][ ~overlapped =>
          \A n \in Names :
             /\ (rec[n] = 0 /\ rec'[n] # 0)
                   => \A k \in Names :
                         rec[k] # 0 => (k < n /\ rec[k] <= rec'[n])
             /\ (rec[n] # 0 /\ rec'[n] = 0)
                   => \A k \in Names : rec[k] <= rec[n] ]_vars

\* a down command has just rolled back the second migration, applied in a
\* later group than the first, which stays applied
C16_Witness ==
    /\ ~overlapped
    /\ last.cmd = "down"
    /\ last.rb = "ok"
    /\ last.code = 0
    /\ rec[1] # 0
    /\ rec[2] = 0
    /\ 2 \in Discover(disk)

\* C17: redo applies only after its rollback succeeded; a failed rollback is
\* reported as "Rollback failed" and a failed apply after a rollback as
\* "Re-apply failed", both with exit code 1.
C17_RedoReportsFailedHalf ==
    /\ \A p \in Running :
          (p.cmd = "redo" /\ p.half = "apply") => (p.rb = "ok" /\ p.ap = "none")
    /\ last.cmd = "redo"
          => /\ last.rb = "err"
                => (last.ap = "none" /\ last.errmsg = "Rollback failed"
                    /\ last.code = 1)
             /\ last.ap = "err"
                => (last.rb = "ok" /\ last.errmsg = "Re-apply failed"
                    /\ last.code = 1)
             /\ last.ap # "none" => last.rb = "ok"

\* a redo has just failed in its apply, after its rollback
C17_Witness ==
    /\ last.cmd = "redo"
    /\ last.rb = "ok"
    /\ last.ap = "err"
    /\ last.errmsg = "Re-apply failed"
    /\ last.code = 1

\* C25: when commands run one after the other, a redo that is about to
\* report success has re-applied exactly what it rolled back: the applied
\* migrations are the ones that were applied when it began.
C25_RedoRestoresApplied ==
    ~overlapped
        => \A p \in Running :
              (/\ p.cmd = "redo"
               /\ p.half = "apply"
               /\ p.pc = "unlock"
               /\ ~p.err
               /\ p.done > 0)
                  => Applied = p.was

\* C26: when a lock command returns, the lock is as the command found it:
\* still held when its Lock was refused, free again when it got the lock.
C26_LockCommandLeavesLock ==
    [][ \A p \in Running :
          (p.cmd = "lock" /\ CopiesIn(p, proc') < CopiesIn(p, proc))
             => /\ p.pc = "lockcmd" => locked' = locked
                /\ p.pc = "lockrelease" => ~locked' ]_vars

\* the timeout stage has sent the timeout response of the current request
TimeoutAnswered ==
    /\ res.twErr
    /\ res.wire.sent

\* C29: once the timeout stage has answered a request, no later step of the
\* handler, of the session stage or of the stages around them changes what
\* is on the connection (status, headers, cookie, body), and the response
\* the client reads for the request is that timeout response.
C29_TimeoutResponseStands ==
    /\ [](TimeoutAnswered
            => /\ res.wire.status = 503
               /\ res.wire.body = "timeout"
               /\ ~res.wire.cookie.present)
    /\ [][ (TimeoutAnswered /\ reqNo' = reqNo)
              => /\ res'.wire = res.wire
                 /\ (client' # client)
                      => (spc = "finish" /\ client'.resp = res.wire
                                        /\ client'.from = reqNo) ]_vars

\* the client has the timeout response of a request whose handler answered
\* and whose session was saved after the timeout
C29_Witness ==
    /\ Answered
    /\ client.from = reqNo
    /\ client.resp.status = 503
    /\ client.resp.body = "timeout"
    /\ ~client.resp.cookie.present
    /\ hpc = "finished"
    /\ res.committed
    /\ ~res.twWrote
    /\ res.twh.cookie.present

\* C30: an invocation that has connected to the database has run
\* database.Close when its process exits, whatever the exit path.
C30_ClosedOnEveryExit ==
    (last.cmd # "none" /\ last.db = "open") => last.closed

\* the files of migration n in the directory d
FilesOf(n, d) == {f \in d : f.ts = n}

C18_ExitCodes ==
    last # NoExit
        => /\ last.outcome = "ok" => last.code = 0
           /\ last.outcome = "fail" => (last.code = 1 /\ last.errmsg # "none")

====
